---- MODULE Spec2Model ----
(***************************************************************************)
(* A model of flexkv/common/tracer.py: the FlexKVTracer class.             *)
(*                                                                         *)
(* The host process creates one tracer per session (Startup), lets its     *)
(* threads call trace_config / trace_request / trace_wait_request / flush  *)
(* and finally releases the tracer (Teardown, the __del__ method).  The    *)
(* file system (the active file P and the generations P.1, P.2, ...)       *)
(* survives from one session to the next.                                  *)
(*                                                                         *)
(* Every statement of _flush_buffer is a step of its own, because flush()  *)
(* runs it without holding the lock and the interpreter may switch threads *)
(* between any two statements.                                             *)
(***************************************************************************)
EXTENDS Integers, Sequences, FiniteSets, TLC

\* ---------------------------------------------------------------- bounds
NumThreads == 2      \* host threads that call the tracer
MaxCalls == 2        \* trace_* calls that reach the lock, over the whole run
MaxSessions == 3     \* tracers constructed over the whole run
MaxTime == 1         \* the clock's largest value, in seconds
MaxFiles == 3        \* largest configured trace_max_files
MaxNodes == 3        \* largest value handed to _convert_tensor_to_list, in nodes

\* ------------------------------------------------------ program constants
BytesPerMB == 1048576      \* 1024 * 1024, line 49
MsPerSecond == 1000        \* line 170

Threads == 1..NumThreads
TaskIds == 1..MaxCalls
\* the size of one line of the file: two lines make one megabyte
RecordBytes == BytesPerMB \div 2
\* the configurations of the host
MaxFilesChoices == 1..MaxFiles
MaxFileSizeChoices == {0, 1}
FlushIntervalChoices == {0, MsPerSecond}
\* generation indexes a rotation can touch: 0 is the active file P, i is P.i
Gens == 0..MaxFiles

NoFile == [exists |-> FALSE, lines |-> <<>>]
NoRecord == [event_type |-> "none", task_ids |-> <<>>]
\* no call has finished yet
NoResult == [call |-> "none", outcome |-> "none"]

VARIABLES
  state,             \* "none": no tracer; "alive": constructed; "broken": __init__ raised
  enable_trace,      \* cache_config.enable_trace of the tracer last constructed
  enabled,           \* self.enabled
  has_buffer,        \* whether __init__ got as far as creating _lock and _buffer
  max_files,         \* self.max_files
  max_file_size_mb,  \* self.max_file_size_mb
  flush_interval_ms, \* self.flush_interval_ms
  dir_exists,        \* whether the parent directory of trace_file_path exists
  fs,                \* fs[0] is the file at trace_file_path, fs[i] the file at path.i
  lock,              \* self._lock: 0 when free, else the thread that holds it
  buffer,            \* self._buffer
  last_flush_time,   \* self._last_flush_time
  now,               \* what time.time() returns
  pc,                \* where each thread is
  pend,              \* json_record of a thread between json.dumps and the append
  records,           \* the local variable records of _flush_buffer, what is left to write
  result,            \* the call that finished last: the method and how it ended
  del_result,        \* how the last __del__ ended
  nextId,            \* the position in lock-acquisition order of the next append
  sessionStart,      \* nextId when the current tracer was constructed
  sessions,          \* tracers constructed so far
  allWrote,          \* every earlier session left a file at trace_file_path
  ioFailed,          \* some write of the current session failed
  obj,               \* the argument obj of _convert_tensor_to_list
  converted          \* what the calls of _convert_tensor_to_list made so far returned

vars == <<state, enable_trace, enabled, has_buffer, max_files, max_file_size_mb, flush_interval_ms,
          dir_exists, fs, lock, buffer, last_flush_time, now, pc, pend, records,
          result, del_result, nextId, sessionStart, sessions, allWrote, ioFailed,
          obj, converted>>

config == <<max_files, max_file_size_mb, flush_interval_ms>>
tracer == <<state, enable_trace, enabled, has_buffer>>
history == <<sessionStart, sessions, allWrote>>
payload == <<obj, converted>>

\* ------------------------------------------------------------ file system
Exists(f, i) == f[i].exists

\* os.path.getsize: the bytes of the file
GetSize(f, i) == Len(f[i].lines) * RecordBytes

\* os.remove(path.i)
Remove(f, i) == [f EXCEPT ![i] = NoFile]

\* os.rename(path.i, path.j): replaces the target
Rename(f, i, j) == [f EXCEPT ![j] = f[i], ![i] = NoFile]

\* one iteration of the loop of _rotate_files_if_needed
RotateStep(f, i, mf) ==
  IF Exists(f, i)
    THEN IF i = mf - 1 THEN Remove(f, i) ELSE Rename(f, i, i + 1)
    ELSE f

\* for i in range(max_files - 1, 0, -1)
RECURSIVE RotateLoop(_, _, _)
RotateLoop(f, i, mf) ==
  IF i <= 0 THEN f ELSE RotateLoop(RotateStep(f, i, mf), i - 1, mf)

\* file_size_mb >= self.max_file_size_mb with file_size_mb = size / (1024 * 1024)
SizeReached(size, mb) == size >= mb * BytesPerMB

RotateFilesIfNeeded(f, mf, mb) ==
  IF ~Exists(f, 0) THEN f
  ELSE IF SizeReached(GetSize(f, 0), mb)
    THEN LET g == RotateLoop(f, mf - 1, mf)
         IN IF Exists(g, 0) THEN Rename(g, 0, 1) ELSE g
    ELSE f

\* the file opened with 'w': what it held is gone
WriteToFileMut(f, r) == [f EXCEPT ![0] = [exists |-> TRUE, lines |-> <<r>>]]

\* open(path, 'a') then write(json_record + '\n'): one more line, the file created if absent
WriteToFile(f, r) == [f EXCEPT ![0] = [exists |-> TRUE, lines |-> Append(f[0].lines, r)]]

RECURSIVE WriteAll(_, _)
WriteAll(f, rs) == IF rs = <<>> THEN f ELSE WriteAll(WriteToFile(f, Head(rs)), Tail(rs))

\* ------------------------------------------------- values and normalization
\* A value a host passes to trace_request.  tag is what isinstance sees, val the
\* scalar of a leaf, keys the keys of a dict in items order, items the members.
Value(tag, val, keys, items) == [tag |-> tag, val |-> val, keys |-> keys, items |-> items]

Scalars == {0, 1}

\* int, float, bool, str, None
Prim(v) == Value("prim", v, <<>>, <<>>)
\* an object none of the isinstance tests accepts, a set for one
Other(v) == Value("other", v, <<>>, <<>>)
\* a torch.Tensor or np.ndarray of numbers with no dimension: one scalar
Tensor0(v) == Value("tensor0", v, <<>>, <<>>)
\* a torch.Tensor or np.ndarray of numbers with a first dimension of Len(items)
Tensor(items) == Value("tensor", 0, <<>>, items)
List(items) == Value("list", 0, <<>>, items)
Tuple(items) == Value("tuple", 0, <<>>, items)
Dict(items) == Value("dict", 0, [i \in DOMAIN items |-> i], items)

RECURSIVE Shape(_)
Shape(t) ==
  IF t.tag = "tensor0" THEN <<>>
  ELSE <<Len(t.items)>> \o (IF t.items = <<>> THEN <<>> ELSE Shape(t.items[1]))

\* the members of an array all have one shape
Uniform(f) == \A i, j \in DOMAIN f : Shape(f[i]) = Shape(f[j])

RECURSIVE ValuesOfSize(_)
RECURSIVE TensorsOfSize(_)
RECURSIVE Forests(_)
RECURSIVE TensorForests(_)

\* the values of n nodes
ValuesOfSize(n) ==
  (IF n = 1 THEN {Prim(v) : v \in Scalars} \cup {Other(0)} ELSE {})
    \cup {List(f) : f \in Forests(n - 1)}
    \cup {Tuple(f) : f \in Forests(n - 1)}
    \cup {Dict(f) : f \in Forests(n - 1)}
    \cup TensorsOfSize(n)

TensorsOfSize(n) ==
  (IF n = 1 THEN {Tensor0(v) : v \in Scalars} ELSE {})
    \cup {Tensor(f) : f \in {g \in TensorForests(n - 1) : Uniform(g)}}

\* the sequences of values of n nodes in all
Forests(n) ==
  IF n = 0 THEN {<<>>}
  ELSE UNION {{<<v>> \o f : v \in ValuesOfSize(k), f \in Forests(n - k)} : k \in 1..n}

TensorForests(n) ==
  IF n = 0 THEN {<<>>}
  ELSE UNION {{<<v>> \o f : v \in TensorsOfSize(k), f \in TensorForests(n - k)} : k \in 1..n}

Values == UNION {ValuesOfSize(n) : n \in 1..MaxNodes}

\* obj.tolist(): nested lists that follow the shape, a scalar for no dimension
RECURSIVE ToList(_)
ToList(t) ==
  IF t.tag = "tensor0" THEN Prim(t.val)
  ELSE List([i \in DOMAIN t.items |-> ToList(t.items[i])])

\* every list and tuple handed back as a tuple, nothing else looked at
ConvertTensorToListMut(o) ==
  IF o.tag \in {"list", "tuple"} THEN Tuple(o.items) ELSE o

RECURSIVE ConvertTensorToList(_)
ConvertTensorToList(o) ==
  IF o.tag \in {"tensor0", "tensor"} THEN ToList(o)
  ELSE IF o.tag = "dict"
    THEN Value("dict", o.val, o.keys,
               [i \in DOMAIN o.items |-> ConvertTensorToList(o.items[i])])
  ELSE IF o.tag \in {"list", "tuple"}
    THEN List([i \in DOMAIN o.items |-> ConvertTensorToList(o.items[i])])
  ELSE o

\* ------------------------------------------------------------------ Init
\* no tracer constructed yet, no trace file on the path
InitTracer ==
  /\ state = "none"
  /\ enable_trace = FALSE
  /\ enabled = FALSE
  /\ has_buffer = FALSE
  /\ max_files \in MaxFilesChoices
  /\ max_file_size_mb \in MaxFileSizeChoices
  /\ flush_interval_ms \in FlushIntervalChoices
  /\ dir_exists = FALSE
  /\ fs = [i \in Gens |-> NoFile]
  /\ lock = 0
  /\ buffer = <<>>
  /\ last_flush_time = 0
  /\ now = 0
  /\ pc = [t \in Threads |-> "idle"]
  /\ pend = [t \in Threads |-> NoRecord]
  /\ records = [t \in Threads |-> <<>>]
  /\ result = NoResult
  /\ del_result = "none"
  /\ nextId = 1
  /\ sessionStart = 1
  /\ sessions = 0
  /\ allWrote = TRUE
  /\ ioFailed = FALSE

Init ==
  /\ InitTracer
  /\ obj = Prim(0)
  /\ converted = <<>>

\* ------------------------------------------------------------ exceptions
Exceptions == {"OSError", "AttributeError", "TypeError"}

\* the block without suppress: the exception leaves __del__
SuppressMut(exc) == exc

\* with suppress(Exception): an exception raised inside ends the block normally
Suppress(exc) == IF exc \in Exceptions THEN "returned" ELSE exc

\* the records of the current session that are in the file at trace_file_path
SessionLines(f) == SelectSeq(f[0].lines, LAMBDA r : r.id >= sessionStart)

\* ------------------------------------------------------------- lifecycle
Outcomes == {"ok", "attr_error", "mkdir_error"}

\* the flag set whatever the configuration says
EnableTraceMut(en) == TRUE

\* self.enabled = cache_config.enable_trace
EnableTrace(en) == en

\* FlexKVTracer(cache_config) with cache_config.enable_trace = en.  outcome says
\* whether __init__ ends normally, raises while it reads cache_config (lines 21-24,
\* before _lock and _buffer exist) or raises in os.makedirs (line 39).
Startup(en, outcome) ==
  /\ state = "none"
  /\ sessions < MaxSessions
  /\ outcome = "mkdir_error" => ~dir_exists
  /\ enable_trace' = en
  /\ enabled' = EnableTrace(en)
  /\ sessions' = sessions + 1
  /\ allWrote' = (allWrote /\ (sessions = 0 \/ SessionLines(fs) # <<>>))
  /\ sessionStart' = nextId
  /\ ioFailed' = FALSE
  /\ del_result' = "none"
  /\ result' = NoResult
  /\ IF ~enabled'
       THEN /\ state' = "alive"
            /\ has_buffer' = FALSE
            /\ UNCHANGED <<dir_exists, fs, lock, buffer, last_flush_time>>
     ELSE IF outcome = "attr_error"
       THEN /\ state' = "broken"
            /\ has_buffer' = FALSE
            /\ UNCHANGED <<dir_exists, fs, lock, buffer, last_flush_time>>
     ELSE /\ has_buffer' = TRUE
          /\ lock' = 0
          /\ buffer' = <<>>
          /\ last_flush_time' = now
          /\ IF outcome = "mkdir_error"
               THEN /\ state' = "broken"
                    /\ UNCHANGED <<dir_exists, fs>>
               ELSE /\ state' = "alive"
                    /\ dir_exists' = TRUE
                    /\ fs' = RotateFilesIfNeeded(fs, max_files, max_file_size_mb)
  /\ UNCHANGED <<payload, config, now, pc, pend, records, nextId>>

\* __del__: flush() inside suppress(Exception).  The tracer is released only when no
\* thread is inside one of its methods, so the whole of _flush_buffer runs alone; the
\* first k records of the batch are written and, if k is less than its length, the
\* next write raises.
Teardown(k) ==
  /\ state \in {"alive", "broken"}
  /\ \A t \in Threads : pc[t] = "idle"
  /\ k \in 0..Len(buffer)
  /\ state' = "none"
  /\ IF ~enabled
       THEN /\ del_result' = "returned"
            /\ UNCHANGED <<fs, buffer, last_flush_time, ioFailed>>
     ELSE IF ~has_buffer
       THEN /\ del_result' = Suppress("AttributeError")
            /\ UNCHANGED <<fs, buffer, last_flush_time, ioFailed>>
     ELSE IF buffer = <<>>
       THEN /\ del_result' = "returned"
            /\ UNCHANGED <<fs, buffer, last_flush_time, ioFailed>>
     ELSE /\ buffer' = <<>>
          /\ fs' = WriteAll(fs, SubSeq(buffer, 1, k))
          /\ IF k = Len(buffer)
               THEN /\ last_flush_time' = now
                    /\ del_result' = "returned"
                    /\ UNCHANGED ioFailed
               ELSE /\ ioFailed' = TRUE
                    /\ del_result' = Suppress("OSError")
                    /\ UNCHANGED last_flush_time
  /\ UNCHANGED <<payload, enable_trace, enabled, has_buffer, config, dir_exists, lock, now, pc,
                 pend, records, result, nextId, history>>

\* time.time() is the wall clock: it may also be set back
Tick(v) ==
  /\ v \in 0..MaxTime
  /\ v # now
  /\ now' = v
  /\ UNCHANGED <<payload, tracer, config, dir_exists, fs, lock, buffer, last_flush_time, pc, pend,
                 records, result, del_result, nextId, history, ioFailed>>

\* ------------------------------------------------------- the trace_* calls
\* isinstance(task_ids, int): [task_ids], else list(task_ids)
TaskIdsList(x) == IF x.is_int THEN <<x.int>> ELSE x.list

IntArg(i) == [is_int |-> TRUE, int |-> i, list |-> <<>>]
ListArg(l) == [is_int |-> FALSE, int |-> 0, list |-> l]

\* calls that have serialized their record and wait for the lock
Waiting == {t \in Threads : pc[t] = "lock"}

\* the method a thread inside _flush_buffer came from: the trace_* methods call it
\* inside with self._lock, flush() calls it with no lock
Caller(t) == IF lock = t THEN "trace" ELSE "flush"

\* a thread leaves the method normally; a with-block releases the lock it holds
Return(t) ==
  /\ pc' = [pc EXCEPT ![t] = "idle"]
  /\ result' = [call |-> Caller(t), outcome |-> "returned"]
  /\ lock' = IF lock = t THEN 0 ELSE lock

\* the lock taken with acquire() and no finally: an exception leaves it held
RaiseMut(t, exc) ==
  /\ pc' = [pc EXCEPT ![t] = "idle"]
  /\ result' = [call |-> Caller(t), outcome |-> exc]
  /\ lock' = lock

\* an exception leaves the method; a with-block releases the lock it holds
Raise(t, exc) ==
  /\ pc' = [pc EXCEPT ![t] = "idle"]
  /\ result' = [call |-> Caller(t), outcome |-> exc]
  /\ lock' = IF lock = t THEN 0 ELSE lock

\* json.dumps moved into the with block, after the append
TraceMut(t, ev, tids, serializable) ==
  /\ state = "alive"
  /\ pc[t] = "idle"
  /\ IF ~enabled
       THEN /\ result' = [call |-> "trace", outcome |-> "returned"]
            /\ UNCHANGED <<pc, pend, buffer>>
     ELSE IF ~serializable
       THEN /\ result' = [call |-> "trace", outcome |-> "TypeError"]
            /\ buffer' = Append(buffer, [id |-> nextId, event_type |-> ev, task_ids |-> tids])
            /\ UNCHANGED <<pc, pend>>
     ELSE /\ nextId + Cardinality(Waiting) <= MaxCalls
          /\ pc' = [pc EXCEPT ![t] = "lock"]
          /\ pend' = [pend EXCEPT ![t] = [event_type |-> ev, task_ids |-> tids]]
          /\ UNCHANGED <<result, buffer>>
  /\ UNCHANGED <<payload, tracer, config, dir_exists, fs, lock, last_flush_time, now,
                 records, del_result, nextId, history, ioFailed>>

\* the part the three trace_* methods share up to the lock: the enabled gate, the
\* record built and json.dumps, which raises TypeError on a payload it cannot serialize
Trace(t, ev, tids, serializable) ==
  /\ state = "alive"
  /\ pc[t] = "idle"
  /\ IF ~enabled
       THEN /\ result' = [call |-> "trace", outcome |-> "returned"]
            /\ UNCHANGED <<pc, pend>>
     ELSE IF ~serializable
       THEN /\ result' = [call |-> "trace", outcome |-> "TypeError"]
            /\ UNCHANGED <<pc, pend>>
     ELSE /\ nextId + Cardinality(Waiting) <= MaxCalls
          /\ pc' = [pc EXCEPT ![t] = "lock"]
          /\ pend' = [pend EXCEPT ![t] = [event_type |-> ev, task_ids |-> tids]]
          /\ UNCHANGED result
  /\ UNCHANGED <<payload, tracer, config, dir_exists, fs, lock, buffer, last_flush_time, now,
                 records, del_result, nextId, history, ioFailed>>

TraceConfig(t, serializable) == Trace(t, "config", <<>>, serializable)

TraceRequest(t, serializable) == Trace(t, "request", <<>>, serializable)

TraceWaitRequest(t, task_ids, serializable) ==
  Trace(t, "wait", TaskIdsList(task_ids), serializable)

\* the buffer replaced by the new record instead of extended
BufferAppendMut(buf, r) == <<r>>

\* self._buffer.append(json_record)
BufferAppend(buf, r) == Append(buf, r)

\* with self._lock: self._buffer.append(json_record)
Acquire(t) ==
  /\ pc[t] = "lock"
  /\ lock = 0
  /\ lock' = t
  /\ buffer' = BufferAppend(buffer, [id |-> nextId, event_type |-> pend[t].event_type,
                                     task_ids |-> pend[t].task_ids])
  /\ nextId' = nextId + 1
  /\ pend' = [pend EXCEPT ![t] = NoRecord]
  /\ pc' = [pc EXCEPT ![t] = "check"]
  /\ UNCHANGED <<payload, tracer, config, dir_exists, fs, last_flush_time, now, records, result,
                 del_result, history, ioFailed>>

\* the comparison strict
IntervalElapsedMut(current_time, last, interval) ==
  (current_time - last) * MsPerSecond > interval

\* (current_time - self._last_flush_time) * 1000 >= self.flush_interval_ms
IntervalElapsed(current_time, last, interval) ==
  (current_time - last) * MsPerSecond >= interval

\* current_time = time.time(); if the interval has elapsed: self._flush_buffer()
CheckInterval(t) ==
  /\ pc[t] = "check"
  /\ IF IntervalElapsed(now, last_flush_time, flush_interval_ms)
       THEN /\ pc' = [pc EXCEPT ![t] = "fb_test"]
            /\ UNCHANGED <<result, lock>>
       ELSE Return(t)
  /\ UNCHANGED <<payload, tracer, config, dir_exists, fs, buffer, last_flush_time, now, pend,
                 records, del_result, nextId, history, ioFailed>>

\* flush(): the enabled gate, then _flush_buffer() with no lock taken
Flush(t) ==
  /\ state = "alive"
  /\ pc[t] = "idle"
  /\ IF ~enabled
       THEN /\ result' = [call |-> "flush", outcome |-> "returned"]
            /\ UNCHANGED pc
       ELSE /\ pc' = [pc EXCEPT ![t] = "fb_test"]
            /\ UNCHANGED result
  /\ UNCHANGED <<payload, tracer, config, dir_exists, fs, lock, buffer, last_flush_time, now, pend,
                 records, del_result, nextId, history, ioFailed>>

\* ---------------------------------------------------------- _flush_buffer
\* no early return: an empty buffer gets as far as the timestamp update
FbTestMut(t) ==
  /\ pc[t] = "fb_test"
  /\ IF buffer = <<>>
       THEN /\ Return(t)
            /\ last_flush_time' = now
       ELSE /\ pc' = [pc EXCEPT ![t] = "fb_test2"]
            /\ UNCHANGED <<result, lock, last_flush_time>>
  /\ UNCHANGED <<payload, tracer, config, dir_exists, fs, buffer, now, pend,
                 records, del_result, nextId, history, ioFailed>>

\* if not self._buffer: return
FbTest(t) ==
  /\ pc[t] = "fb_test"
  /\ IF buffer = <<>>
       THEN Return(t)
       ELSE /\ pc' = [pc EXCEPT ![t] = "fb_test2"]
            /\ UNCHANGED <<result, lock>>
  /\ UNCHANGED <<payload, tracer, config, dir_exists, fs, buffer, last_flush_time, now, pend,
                 records, del_result, nextId, history, ioFailed>>

\* if self._buffer: (the body below), else the method ends
FbTest2(t) ==
  /\ pc[t] = "fb_test2"
  /\ IF buffer # <<>>
       THEN /\ pc' = [pc EXCEPT ![t] = "fb_copy"]
            /\ UNCHANGED <<result, lock>>
       ELSE Return(t)
  /\ UNCHANGED <<payload, tracer, config, dir_exists, fs, buffer, last_flush_time, now, pend,
                 records, del_result, nextId, history, ioFailed>>

\* records = self._buffer.copy()
FbCopy(t) ==
  /\ pc[t] = "fb_copy"
  /\ records' = [records EXCEPT ![t] = buffer]
  /\ pc' = [pc EXCEPT ![t] = "fb_clear"]
  /\ UNCHANGED <<payload, tracer, config, dir_exists, fs, lock, buffer, last_flush_time, now, pend,
                 result, del_result, nextId, history, ioFailed>>

\* the copy taken, the buffer left as it is
FbClearMut(t) ==
  /\ pc[t] = "fb_clear"
  /\ pc' = [pc EXCEPT ![t] = "fb_write"]
  /\ UNCHANGED <<payload, tracer, config, dir_exists, fs, lock, buffer, last_flush_time,
                 now, pend, records, result, del_result, nextId, history, ioFailed>>

\* self._buffer.clear()
FbClear(t) ==
  /\ pc[t] = "fb_clear"
  /\ buffer' = <<>>
  /\ pc' = [pc EXCEPT ![t] = "fb_write"]
  /\ UNCHANGED <<payload, tracer, config, dir_exists, fs, lock, last_flush_time, now, pend,
                 records, result, del_result, nextId, history, ioFailed>>

\* one iteration of: for record in records: self._write_to_file(record).
\* ok says whether open and write succeed; if not, OSError leaves the method.
FbWrite(t, ok) ==
  /\ pc[t] = "fb_write"
  /\ records[t] # <<>>
  /\ records' = [records EXCEPT ![t] = IF ok THEN Tail(records[t]) ELSE <<>>]
  /\ IF ok
       THEN /\ fs' = WriteToFile(fs, Head(records[t]))
            /\ UNCHANGED <<pc, result, lock, ioFailed>>
       ELSE /\ Raise(t, "OSError")
            /\ ioFailed' = TRUE
            /\ UNCHANGED fs
  /\ UNCHANGED <<payload, tracer, config, dir_exists, buffer, last_flush_time, now, pend,
                 del_result, nextId, history>>

\* after the loop: self._last_flush_time = time.time(), and the method ends
FbStamp(t) ==
  /\ pc[t] = "fb_write"
  /\ records[t] = <<>>
  /\ last_flush_time' = now
  /\ Return(t)
  /\ UNCHANGED <<payload, tracer, config, dir_exists, fs, buffer, now, pend, records, del_result,
                 nextId, history, ioFailed>>

\* --------------------------------------------------------- specification
\* what a host passes as task_ids: an int or a list of ints
WaitArgs == {IntArg(1), ListArg(<<1, 2>>)}

\* The host in full: sessions one after the other, threads calling at will.
Next ==
  \/ \E en \in BOOLEAN, o \in Outcomes : Startup(en, o)
  \/ \E k \in 0..MaxCalls : Teardown(k)
  \/ \E v \in 0..MaxTime : Tick(v)
  \/ \E t \in Threads, s \in BOOLEAN : TraceConfig(t, s)
  \/ \E t \in Threads, s \in BOOLEAN : TraceRequest(t, s)
  \/ \E t \in Threads, x \in WaitArgs, s \in BOOLEAN : TraceWaitRequest(t, x, s)
  \/ \E t \in Threads : Acquire(t)
  \/ \E t \in Threads : CheckInterval(t)
  \/ \E t \in Threads : Flush(t)
  \/ \E t \in Threads : FbTest(t)
  \/ \E t \in Threads : FbTest2(t)
  \/ \E t \in Threads : FbCopy(t)
  \/ \E t \in Threads : FbClear(t)
  \/ \E t \in Threads, ok \in BOOLEAN : FbWrite(t, ok)
  \/ \E t \in Threads : FbStamp(t)

Spec == Init /\ [][Next]_vars

\* no thread is inside a method of the tracer
Quiet == \A t \in Threads : pc[t] = "idle"

\* ---- one session, threads calling at will
\* a host that keeps every generation it may and rotates at every startup, on a path
\* where no trace file exists yet; Construct is its FlexKVTracer(cache_config)
InitThreads ==
  /\ Init
  /\ max_files = MaxFiles
  /\ max_file_size_mb = 0

Construct == sessions = 0 /\ Startup(TRUE, "ok")

NextThreads ==
  \/ Construct
  \/ \E k \in 0..MaxCalls : Teardown(k)
  \/ \E v \in 0..MaxTime : Tick(v)
  \/ \E t \in Threads : TraceConfig(t, TRUE)
  \/ \E t \in Threads : TraceRequest(t, TRUE)
  \/ \E t \in Threads, x \in WaitArgs : TraceWaitRequest(t, x, TRUE)
  \/ \E t \in Threads : Acquire(t)
  \/ \E t \in Threads : CheckInterval(t)
  \/ \E t \in Threads : Flush(t)
  \/ \E t \in Threads : FbTest(t)
  \/ \E t \in Threads : FbTest2(t)
  \/ \E t \in Threads : FbCopy(t)
  \/ \E t \in Threads : FbClear(t)
  \/ \E t \in Threads, ok \in BOOLEAN : FbWrite(t, ok)
  \/ \E t \in Threads : FbStamp(t)

SpecThreads == InitThreads /\ [][NextThreads]_vars

\* ---- sessions one after the other, the host calling from a single thread
Main == CHOOSE t \in Threads : TRUE

SoloTraceConfig(s) == Quiet /\ TraceConfig(Main, s)

SoloTraceRequest(s) == Quiet /\ TraceRequest(Main, s)

SoloTraceWaitRequest(x, s) == Quiet /\ TraceWaitRequest(Main, x, s)

SoloFlush == Quiet /\ Flush(Main)

NextSessions ==
  \/ \E en \in BOOLEAN, o \in Outcomes : Startup(en, o)
  \/ \E k \in 0..MaxCalls : Teardown(k)
  \/ \E v \in 0..MaxTime : Tick(v)
  \/ \E s \in BOOLEAN : SoloTraceConfig(s)
  \/ \E s \in BOOLEAN : SoloTraceRequest(s)
  \/ \E x \in WaitArgs, s \in BOOLEAN : SoloTraceWaitRequest(x, s)
  \/ \E t \in Threads : Acquire(t)
  \/ \E t \in Threads : CheckInterval(t)
  \/ SoloFlush
  \/ \E t \in Threads : FbTest(t)
  \/ \E t \in Threads : FbTest2(t)
  \/ \E t \in Threads : FbCopy(t)
  \/ \E t \in Threads : FbClear(t)
  \/ \E t \in Threads, ok \in BOOLEAN : FbWrite(t, ok)
  \/ \E t \in Threads : FbStamp(t)

SpecSessions == Init /\ [][NextSessions]_vars

\* the same host with the configuration of InitThreads
SpecLifecycle == InitThreads /\ [][NextSessions]_vars

\* ---- N concurrent trace_wait_request calls with distinct task ids, then flush()
Elems(q) == {q[i] : i \in DOMAIN q}

TaskIdsIn(rs) == UNION {Elems(r.task_ids) : r \in Elems(rs)}

\* the task ids of the calls made so far
IssuedTaskIds ==
  UNION {Elems(pend[t].task_ids) \cup TaskIdsIn(records[t]) : t \in Threads}
    \cup TaskIdsIn(buffer) \cup TaskIdsIn(fs[0].lines)

DistinctWait(t, i) == i \notin IssuedTaskIds /\ TraceWaitRequest(t, IntArg(i), TRUE)

\* flush() called once all MaxCalls calls have returned
FinalFlush(t) == Quiet /\ nextId = MaxCalls + 1 /\ Flush(t)

WriteOk(t) == FbWrite(t, TRUE)

NextWait ==
  \/ Construct
  \/ \E v \in 0..MaxTime : Tick(v)
  \/ \E t \in Threads, i \in TaskIds : DistinctWait(t, i)
  \/ \E t \in Threads : Acquire(t)
  \/ \E t \in Threads : CheckInterval(t)
  \/ \E t \in Threads : FinalFlush(t)
  \/ \E t \in Threads : FbTest(t)
  \/ \E t \in Threads : FbTest2(t)
  \/ \E t \in Threads : FbCopy(t)
  \/ \E t \in Threads : FbClear(t)
  \/ \E t \in Threads : WriteOk(t)
  \/ \E t \in Threads : FbStamp(t)

SpecWait == InitThreads /\ [][NextWait]_vars

\* ---- trace_* calls one after the other, flush_interval_ms = 0, the clock never set back
InitSeq == InitThreads /\ flush_interval_ms = 0

Advance(v) == v > now /\ Tick(v)

NextSeq ==
  \/ Construct
  \/ \E v \in 0..MaxTime : Advance(v)
  \/ SoloTraceConfig(TRUE)
  \/ SoloTraceRequest(TRUE)
  \/ \E x \in WaitArgs : SoloTraceWaitRequest(x, TRUE)
  \/ \E t \in Threads : Acquire(t)
  \/ \E t \in Threads : CheckInterval(t)
  \/ \E t \in Threads : FbTest(t)
  \/ \E t \in Threads : FbTest2(t)
  \/ \E t \in Threads : FbCopy(t)
  \/ \E t \in Threads : FbClear(t)
  \/ \E t \in Threads : WriteOk(t)
  \/ \E t \in Threads : FbStamp(t)

SpecSeq == InitSeq /\ [][NextSeq]_vars

\* ---- one session, threads calling at will, every thread scheduled fairly
Write(t) == \E ok \in BOOLEAN : FbWrite(t, ok)

NextFair ==
  \/ Construct
  \/ \E t \in Threads : TraceConfig(t, TRUE)
  \/ \E t \in Threads : TraceRequest(t, TRUE)
  \/ \E t \in Threads, x \in WaitArgs : TraceWaitRequest(t, x, TRUE)
  \/ \E t \in Threads : Acquire(t)
  \/ \E t \in Threads : CheckInterval(t)
  \/ \E t \in Threads : Flush(t)
  \/ \E t \in Threads : FbTest(t)
  \/ \E t \in Threads : FbTest2(t)
  \/ \E t \in Threads : FbCopy(t)
  \/ \E t \in Threads : FbClear(t)
  \/ \E t \in Threads : Write(t)
  \/ \E t \in Threads : FbStamp(t)

\* the next statement of a thread that is inside the with block or inside _flush_buffer
Step(t) ==
  \/ CheckInterval(t)
  \/ FbTest(t)
  \/ FbTest2(t)
  \/ FbCopy(t)
  \/ FbClear(t)
  \/ Write(t)
  \/ FbStamp(t)

\* a thread inside a method goes on running, a write ends (well or with OSError),
\* and a thread that finds the lock free again and again gets it
Fairness == \A t \in Threads : SF_vars(Acquire(t)) /\ WF_vars(Step(t))

SpecFair == InitThreads /\ [][NextFair]_vars /\ Fairness

\* ---- _convert_tensor_to_list applied to a value, then to what it returned
InitConvert ==
  /\ InitTracer
  /\ max_files = MaxFiles
  /\ max_file_size_mb = 0
  /\ flush_interval_ms = 0
  /\ obj \in Values
  /\ converted = <<>>

\* out = self._convert_tensor_to_list(obj)
Convert ==
  /\ converted = <<>>
  /\ converted' = <<ConvertTensorToList(obj)>>
  /\ UNCHANGED <<obj, tracer, config, history, dir_exists, fs, lock, buffer,
                 last_flush_time, now, pc, pend, records, result, del_result, nextId,
                 ioFailed>>

\* self._convert_tensor_to_list(out)
ConvertAgain ==
  /\ Len(converted) = 1
  /\ converted' = Append(converted, ConvertTensorToList(converted[1]))
  /\ UNCHANGED <<obj, tracer, config, history, dir_exists, fs, lock, buffer,
                 last_flush_time, now, pc, pend, records, result, del_result, nextId,
                 ioFailed>>

NextConvert == Convert \/ ConvertAgain

SpecConvert == InitConvert /\ [][NextConvert]_vars

\* ------------------------------------------------------------- properties
ActiveLines == fs[0].lines

\* how often the record appended as the id-th appears in the active file
Copies(id) == Cardinality({i \in DOMAIN ActiveLines : ActiveLines[i].id = id})

\* the appends of the current session, in lock-acquisition order
SessionIds == sessionStart..(nextId - 1)

FlushReturned == [call |-> "flush", outcome |-> "returned"]
TraceReturned == [call |-> "trace", outcome |-> "returned"]

\* C1: under SpecWait (MaxCalls concurrent trace_wait_request calls with pairwise
\* distinct task ids, writes succeed, then flush() once all have returned), when
\* flush() has returned the active file holds exactly MaxCalls lines, all of
\* event_type "wait", and every input task id is on exactly one line.
C1_WaitNoLossNoDup ==
  result = FlushReturned =>
    /\ Len(ActiveLines) = MaxCalls
    /\ \A i \in DOMAIN ActiveLines : ActiveLines[i].event_type = "wait"
    /\ \A id \in TaskIds :
         Cardinality({i \in DOMAIN ActiveLines : ActiveLines[i].task_ids = <<id>>}) = 1

\* the final flush has returned after calls that were buffered, not flushed at once
C1_Witness ==
  /\ result = FlushReturned
  /\ flush_interval_ms = MsPerSecond
  /\ Len(ActiveLines) = MaxCalls

\* C2: with threads calling trace_* and flush() at will and no write failing, once
\* no call is in progress and the buffer is empty (the state a final flush() leaves),
\* every record appended in the session is in the active file exactly once.
C2_ExactlyOnce ==
  (state = "alive" /\ Quiet /\ buffer = <<>> /\ ~ioFailed) =>
    \A id \in SessionIds : Copies(id) = 1

\* C3: the lines of the active file are in lock-acquisition order: no record is
\* followed by one whose append took the lock earlier.
C3_FileInLockOrder ==
  \A i, j \in DOMAIN ActiveLines : i < j => ActiveLines[i].id <= ActiveLines[j].id

\* C4: a tracer constructed with enable_trace = FALSE has enabled = FALSE as long as
\* it lives, and its construction, every call on it and its teardown leave the
\* directory and the files as they are and end without an error.
Disabled == state = "alive" /\ ~enable_trace

C4_DisabledIsInert ==
  [][(Disabled \/ Disabled') =>
       /\ fs' = fs
       /\ dir_exists' = dir_exists
       /\ Disabled => (~enabled /\ enabled' = enabled)
       /\ Disabled' => ~enabled'
       /\ result'.outcome \in {"none", "returned"}
       /\ del_result' \in {"none", "returned"}]_vars

\* a disabled tracer, on a path where an earlier session left a file, has served a call
C4_Witness == Disabled /\ Exists(fs, 0) /\ result \in {TraceReturned, FlushReturned}

\* C5: at most max_files trace files exist (the active file and the generations),
\* and no generation with an index above max_files - 1 exists.
C5_AtMostMaxFiles ==
  /\ Cardinality({i \in Gens : Exists(fs, i)}) <= max_files
  /\ \A i \in Gens : i > max_files - 1 => ~Exists(fs, i)

Min(a, b) == IF a < b THEN a ELSE b

\* C6: with max_file_size_mb = 0, in the k-th session, every earlier session having
\* written to the active file, exactly the generations 1 .. min(k-1, max_files-1)
\* exist, and a younger generation holds younger records than an older one.
C6_GenerationsAfterSessions ==
  (state = "alive" /\ enabled /\ max_file_size_mb = 0 /\ allWrote) =>
    /\ {i \in Gens \ {0} : Exists(fs, i)} = 1..Min(sessions - 1, max_files - 1)
    /\ \A i, j \in Gens \ {0} : i < j =>
         \A a \in Elems(fs[i].lines), b \in Elems(fs[j].lines) : a.id > b.id

\* C7: after the teardown of an enabled tracer the buffer is empty and, if no write
\* failed, every record appended in the session is in the active file.
C7_TeardownFlushesAll ==
  (state = "none" /\ enabled /\ has_buffer /\ del_result # "none") =>
    /\ buffer = <<>>
    /\ ~ioFailed => \A id \in SessionIds : Copies(id) >= 1

\* C8: __del__ never ends with an exception.
C8_TeardownNeverRaises == del_result \in {"none", "returned"}

\* the teardown of a tracer whose __init__ raised before _buffer and _lock existed
C8_Witness == state = "none" /\ enabled /\ ~has_buffer /\ del_result = "returned"

\* C9: no trace_* call ends with the OSError of a failed write.
C9_TraceNeverRaisesOSError == result # [call |-> "trace", outcome |-> "OSError"]

\* C10: under SpecSeq (flush_interval_ms = 0, the clock never set back, calls one
\* after the other, writes succeed), whenever no call is in progress the buffer is
\* empty and the active file holds the records of all calls so far, in call order.
C10_EveryCallFlushes ==
  (state = "alive" /\ Quiet) =>
    /\ buffer = <<>>
    /\ Len(ActiveLines) = nextId - 1
    /\ \A i \in DOMAIN ActiveLines : ActiveLines[i].id = i

\* one trace_config call has returned: the file is one line of event_type "config"
C10_Witness ==
  /\ Quiet
  /\ result = TraceReturned
  /\ ActiveLines = <<[id |-> 1, event_type |-> "config", task_ids |-> <<>>]>>

TypeErrorRaised == [call |-> "trace", outcome |-> "TypeError"]

\* C11: a step in which a trace_* call ends with the TypeError of json.dumps raised
\* into its caller leaves the buffer, the last-flush timestamp, the files and the
\* lock as they were; the caller is back outside the method and the lock is free.
C11_SerializationErrorLeavesState ==
  [][(result' = TypeErrorRaised /\ result # TypeErrorRaised) =>
       /\ buffer' = buffer
       /\ last_flush_time' = last_flush_time
       /\ fs' = fs
       /\ lock' = lock
       /\ lock' = 0
       /\ \A t \in Threads : pc'[t] = "idle" /\ pend'[t] = pend[t]]_vars

\* a call raised the serialization error while an earlier record waits in the buffer
C11_Witness == result = TypeErrorRaised /\ buffer # <<>> /\ lock = 0

\* a value built only from primitives, lists and mappings
RECURSIVE Plain(_)
Plain(v) ==
  /\ v.tag \in {"prim", "list", "dict"}
  /\ \A i \in DOMAIN v.items : Plain(v.items[i])

\* C12: _convert_tensor_to_list returns a value equal to its argument when that is
\* built only from primitives, lists and dicts, and applied to its own result it
\* returns an equal value, for every argument (tuples and arrays among them).
C12_NormalizeIdempotent ==
  /\ (converted # <<>> /\ Plain(obj)) => converted[1] = obj
  /\ Len(converted) = 2 => converted[2] = converted[1]

\* a tuple that holds an array went through twice and came out as nested lists
C12_Witness ==
  /\ obj = Tuple(<<Tensor(<<Tensor0(1)>>)>>)
  /\ converted = <<List(<<List(<<Prim(1)>>)>>), List(<<List(<<Prim(1)>>)>>)>>

\* the statements of _flush_buffer that read or change the buffer and the timestamp
InDrain == {"fb_test", "fb_test2", "fb_copy", "fb_clear", "fb_write"}

\* C13: at most one thread is between its read of the buffer and the end of its
\* mutation, and a thread inside the drain step (_flush_buffer), whether it came
\* from a trace_* call or from flush(), holds the lock.
C13_MutualExclusion ==
  /\ Cardinality({t \in Threads : pc[t] \in InDrain \cup {"check"}}) <= 1
  /\ \A t \in Threads : pc[t] \in InDrain => lock = t

\* C14: the constructor of an enabled tracer rotates if and only if the active file
\* exists and its size is at least max_file_size_mb megabytes.  When it rotates, the
\* former active file is P.1, each former P.i with i < max_files - 1 is P.(i+1), every
\* file but the former P.(max_files - 1) is still there under some name and P does
\* not exist; when it does not rotate the files are as they were.
C14_RotationAtStartup ==
  [][(sessions' = sessions + 1 /\ enabled' /\ state' = "alive") =>
       IF Exists(fs, 0) /\ GetSize(fs, 0) >= max_file_size_mb * BytesPerMB
         THEN /\ fs'[1] = fs[0]
              /\ \A i \in Gens \ {0} :
                   (i < max_files - 1 /\ Exists(fs, i)) => fs'[i + 1] = fs[i]
              /\ \A i \in Gens \ {0} :
                   (i # max_files - 1 /\ Exists(fs, i)) => \E j \in Gens : fs'[j] = fs[i]
              /\ ~Exists(fs', 0)
         ELSE fs' = fs]_vars

\* the ids of the records in rs, in order
Ids(rs) == [i \in DOMAIN rs |-> rs[i].id]

\* the ids of all the appends of the session so far, in order
AllIds == [i \in 1..(nextId - sessionStart) |-> sessionStart + i - 1]

\* C15: the append-and-maybe-flush of a trace_* call takes the record to the tail of
\* the buffer.  If the interval has not elapsed the call ends with the record the
\* last of the buffer and the file and the timestamp as they were; if it has, the
\* call ends with the buffer empty, the timestamp reset and, no write having
\* failed, every record appended so far in the file once, in buffer order.
C15_AppendAndMaybeFlush ==
  [][\A t \in Threads :
       /\ (pc[t] = "lock" /\ pc'[t] = "check") =>
            /\ Len(buffer') = Len(buffer) + 1
            /\ SubSeq(buffer', 1, Len(buffer)) = buffer
            /\ buffer'[Len(buffer')].event_type = pend[t].event_type
       /\ (lock = t /\ pc[t] = "check" /\ pc'[t] = "idle") =>
            /\ (now - last_flush_time) * MsPerSecond < flush_interval_ms
            /\ buffer # <<>>
            /\ buffer[Len(buffer)].id = nextId - 1
            /\ <<buffer', fs', last_flush_time'>> = <<buffer, fs, last_flush_time>>
       /\ (lock = t /\ pc[t] = "check" /\ pc'[t] = "fb_test") =>
            (now - last_flush_time) * MsPerSecond >= flush_interval_ms
       /\ (lock = t /\ pc[t] \in InDrain /\ pc'[t] = "idle" /\ ~ioFailed') =>
            /\ buffer' = <<>>
            /\ last_flush_time' = now
            /\ Ids(SessionLines(fs')) = AllIds]_vars

\* C16: a write of the drain of thread t that succeeds puts the first record left of
\* the batch at the end of the file; the step in which a write fails leaves the
\* buffer empty, the records left of the batch neither in the buffer nor in the
\* file, the timestamp as it was and the lock not held by t.
C16_FailedWriteDropsBatch ==
  [][\A t \in Threads :
       /\ (pc[t] = "fb_write" /\ pc'[t] = "fb_write" /\ records'[t] # records[t]) =>
            ActiveLines' = Append(ActiveLines, Head(records[t]))
       /\ (pc[t] = "fb_write" /\ pc'[t] = "idle" /\ records[t] # <<>>) =>
            /\ buffer' = <<>>
            /\ \A i \in DOMAIN records[t] :
                 /\ records[t][i] \notin Elems(buffer')
                 /\ records[t][i] \notin Elems(ActiveLines')
            /\ last_flush_time' = last_flush_time
            /\ lock' # t]_vars

\* thread t ends a flush() call normally in this step
FlushReturns(t) ==
  /\ lock # t
  /\ pc[t] \in InDrain
  /\ pc'[t] = "idle"
  /\ result'.outcome = "returned"

C18_AppendOnlyInSession ==
  [][state # "none" =>
       /\ \A i \in Gens \ {0} : fs'[i] = fs[i]
       /\ Exists(fs, 0) => Exists(fs', 0)
       /\ Len(ActiveLines') >= Len(ActiveLines)
       /\ SubSeq(ActiveLines', 1, Len(ActiveLines)) = ActiveLines]_vars

\* the active file has grown to one megabyte, the threshold or more, in a session
C18_Witness ==
  /\ state = "alive"
  /\ Len(ActiveLines) = 2
  /\ SizeReached(GetSize(fs, 0), max_file_size_mb)
  /\ GetSize(fs, 0) = BytesPerMB

\* C19: under SpecFair (fair scheduling, every write ends) every call in progress
\* returns or raises, and whenever no call is in progress the lock is free, also
\* after a call that ended with an exception.
C19_CallsReturnLockFree ==
  /\ \A t \in Threads : (pc[t] # "idle") ~> (pc[t] = "idle")
  /\ [](Quiet => lock = 0)

\* a trace_* call that drained under the lock ended with OSError; the lock is free
C19_Witness ==
  /\ Quiet
  /\ lock = 0
  /\ result = [call |-> "trace", outcome |-> "OSError"]

\* C20: flush() on an enabled tracer whose buffer is empty returns at the first test
\* of _flush_buffer and its steps leave files, buffer and timestamp as they are; so
\* does the teardown of such a tracer; and while no trace_* call of the session has
\* appended a record no step changes any file.
C20_EmptyFlushIsNoOp ==
  [][/\ \A t \in Threads :
          (buffer = <<>> /\ lock # t /\ pc[t] \in {"idle", "fb_test"} /\ pc'[t] # pc[t]
             /\ pc'[t] \in {"idle", "fb_test"}) =>
            /\ <<fs', dir_exists', buffer', last_flush_time'>>
                 = <<fs, dir_exists, buffer, last_flush_time>>
            /\ pc[t] = "fb_test" => result' = FlushReturned
     /\ (state = "alive" /\ state' = "none" /\ enabled /\ buffer = <<>>) =>
          /\ <<fs', dir_exists', buffer', last_flush_time'>>
               = <<fs, dir_exists, buffer, last_flush_time>>
          /\ del_result' = "returned"
     /\ (state # "none" /\ nextId = sessionStart) => fs' = fs]_vars

\* a first session of flush() and teardown only has ended: there is no active file
C20_Witness ==
  /\ state = "none"
  /\ sessions = 1
  /\ enabled
  /\ has_buffer
  /\ del_result = "returned"
  /\ result = FlushReturned
  /\ now # last_flush_time
  /\ \A i \in Gens : ~Exists(fs, i)

====
